---- MODULE Spec2Model ----
(***************************************************************************)
(* JO&SO AI concierge (server.js and its legacy variant): the CMS cache,   *)
(* its refresh, the paginated CMS fetch, the hotel normalisation and the   *)
(* /api/chat handler, as state machines.                                   *)
(*                                                                         *)
(* JavaScript values are records [t |-> type, v |-> payload]: the payload  *)
(* of a string or a number is its text, the payload of an object is the    *)
(* text of its url property.  A back quote cannot be written in a string   *)
(* of this language, so the fence marker of three back quotes is written   *)
(* with three apostrophes.                                                 *)
(***************************************************************************)
EXTENDS Integers, Sequences, FiniteSets, TLC

VARIABLES cmsCache, env, now, remote, calls, lastDone, res, fa, chat

vars == <<cmsCache, env, now, remote, calls, lastDone, res, fa, chat>>

(***************************************************************************)
(* JavaScript values                                                       *)
(***************************************************************************)
Undefined == [t |-> "undefined", v |-> ""]

Null == [t |-> "null", v |-> ""]

Str(s) == [t |-> "string", v |-> s]

Num(s) == [t |-> "number", v |-> s]

Bool(b) == [t |-> "boolean", v |-> IF b THEN "true" ELSE "false"]

Obj(u) == [t |-> "object", v |-> u]

\* ToBoolean: undefined, null, false, "", 0 and NaN are falsy.
Truthy(x) ==
  CASE x.t = "undefined" -> FALSE
    [] x.t = "null" -> FALSE
    [] x.t = "boolean" -> x.v = "true"
    [] x.t = "string" -> x.v # ""
    [] x.t = "number" -> x.v \notin {"0", "NaN"}
    [] OTHER -> TRUE

\* a || b
Or(a, b) == IF Truthy(a) THEN a ELSE b

\* x?.url
Url(x) == IF x.t = "object" THEN Str(x.v) ELSE Undefined

\* String(x), as a template literal converts its argument.
JSString(x) ==
  CASE x.t = "undefined" -> "undefined"
    [] x.t = "null" -> "null"
    [] x.t = "object" -> "[object Object]"
    [] OTHER -> x.v

Digits == {"0", "1", "2", "3", "4", "5", "6", "7", "8", "9"}

RECURSIVE DigitRun(_, _)
\* The index of the last character of the run of digits of s that starts at i
\* (i - 1 when s has no digit at i).
DigitRun(s, i) ==
  IF i <= Len(s) /\ SubSeq(s, i, i) \in Digits THEN DigitRun(s, i + 1) ELSE i - 1

RECURSIVE StripZeros(_)
\* A decimal fraction without its trailing zeros.
StripZeros(s) ==
  IF Len(s) > 0 /\ SubSeq(s, Len(s), Len(s)) = "0"
  THEN StripZeros(SubSeq(s, 1, Len(s) - 1))
  ELSE s

\* parseFloat: the number written by the longest numeric prefix of String(x),
\* NaN when there is none.
parseFloat(x) ==
  LET s == JSString(x)
      neg == Len(s) > 0 /\ SubSeq(s, 1, 1) = "-"
      b == IF neg THEN 2 ELSE 1
      e1 == DigitRun(s, b)
      dot == e1 >= b /\ e1 + 1 <= Len(s) /\ SubSeq(s, e1 + 1, e1 + 1) = "."
      e2 == IF dot THEN DigitRun(s, e1 + 2) ELSE e1
      frac == IF dot THEN StripZeros(SubSeq(s, e1 + 2, e2)) ELSE ""
      whole == SubSeq(s, b, e1)
      text == IF frac = "" THEN whole ELSE whole \o "." \o frac
  IN  IF e1 < b THEN Num("NaN")
      ELSE IF text = "0" THEN Num("0")
      ELSE Num((IF neg THEN "-" ELSE "") \o text)

(***************************************************************************)
(* CMS items                                                               *)
(***************************************************************************)
Keys ==
  { "name", "hotel-name", "slug", "region", "location", "region-2",
    "short-description", "description", "meta-description",
    "latitude", "lat", "longitude", "lng", "lon",
    "cover-image", "cover", "main-image",
    "booking-url", "booking-link", "show-prices-url",
    "number-of-rooms", "rooms", "archived", "is-closed" }

\* An item whose fieldData holds the given fields and nothing else.
Item(fields) ==
  [fieldData |-> [k \in Keys |-> IF k \in DOMAIN fields THEN fields[k] ELSE Undefined]]

\* An item that carries no fieldData at all.
BareItem == [fieldData |-> Undefined]

HasFieldData(h) == h.fieldData # Undefined

\* h.fieldData?.slug
SlugOf(h) == IF HasFieldData(h) THEN h.fieldData["slug"] ELSE Undefined

\* a === b
StrictEq(a, b) == a.t = b.t /\ a.v = b.v

(***************************************************************************)
(* Hotel data helpers                                                      *)
(***************************************************************************)
RECURSIVE FindIndex(_, _, _)
\* Array.prototype.find: the index of the first item from i on whose slug is
\* the given one, 0 when there is none.
FindIndex(items, slug, i) ==
  IF i > Len(items) THEN 0
  ELSE IF StrictEq(SlugOf(items[i]), slug) THEN i
  ELSE FindIndex(items, slug, i + 1)

\* The record getHotelBySlug builds from the fieldData f.
SlugRecord(f) ==
  [ name |-> Or(Or(f["name"], f["hotel-name"]), Str("Unnamed")),
    slug |-> f["slug"],
    region |-> Or(Or(Or(f["region"], f["location"]), f["region-2"]), Str("Portugal")),
    description |->
      Or(Or(Or(f["short-description"], f["description"]), f["meta-description"]), Str("")),
    lat |-> Or(parseFloat(Or(f["latitude"], f["lat"])), Null),
    lng |-> Or(parseFloat(Or(Or(f["longitude"], f["lng"]), f["lon"])), Null),
    image |->
      Or(Or(Or(Url(f["cover-image"]), Url(f["cover"])), Url(f["main-image"])), Str("")),
    bookingUrl |->
      Or(Or(Or(f["booking-url"], f["booking-link"]), f["show-prices-url"]), Str("")),
    rooms |-> Or(Or(f["number-of-rooms"], f["rooms"]), Str("")),
    url |-> Str("https://joandso.com/hotels-portugal/" \o JSString(f["slug"])) ]

getHotelBySlug(hotels, slug) ==
  LET i == FindIndex(hotels, slug, 1)
  IN  IF i = 0 THEN Null ELSE SlugRecord(hotels[i].fieldData)

\* Listed with the is-closed test forgotten.
ListedArchivedOnly(h) ==
  /\ HasFieldData(h)
  /\ ~Truthy(h.fieldData["archived"])

\* The filter of getAllHotels and of the markers route.
Listed(h) ==
  /\ HasFieldData(h)
  /\ ~Truthy(h.fieldData["archived"])
  /\ ~Truthy(h.fieldData["is-closed"])

\* The record getAllHotels builds from the fieldData f.
ListRecord(f) ==
  [ name |-> Or(Or(f["name"], f["hotel-name"]), Str("Unnamed")),
    slug |-> f["slug"],
    region |-> Or(Or(Or(f["region"], f["location"]), f["region-2"]), Str("Portugal")),
    description |-> Or(Or(f["short-description"], f["description"]), Str("")),
    lat |-> Or(parseFloat(Or(f["latitude"], f["lat"])), Null),
    lng |-> Or(parseFloat(Or(Or(f["longitude"], f["lng"]), f["lon"])), Null),
    image |->
      Or(Or(Or(Url(f["cover-image"]), Url(f["cover"])), Url(f["main-image"])), Str("")),
    bookingUrl |->
      Or(Or(Or(f["booking-url"], f["booking-link"]), f["show-prices-url"]), Str("")),
    url |-> Str("https://joandso.com/hotels-portugal/" \o JSString(f["slug"])) ]

\* cmsCache.hotels.filter(...).map(...) of getAllHotels.
getAllHotels(hotels) ==
  LET kept == SelectSeq(hotels, Listed)
  IN  [i \in 1..Len(kept) |-> ListRecord(kept[i].fieldData)]

\* The record the markers route builds from the fieldData f.
MarkerRecord(f) ==
  [ name |-> Or(Or(f["name"], f["hotel-name"]), Str("Unnamed")),
    slug |-> f["slug"],
    region |-> Or(Or(f["region"], f["location"]), Str("Portugal")),
    lat |-> Or(f["latitude"], f["lat"]),
    lng |-> Or(Or(f["longitude"], f["lng"]), f["lon"]),
    image |-> Or(Or(Url(f["cover-image"]), Url(f["cover"])), Url(f["main-image"])) ]

\* GET /api/hotels/markers: the listed items that have both coordinates.
Markers(hotels) ==
  LET kept == SelectSeq(hotels, Listed)
      made == [i \in 1..Len(kept) |-> MarkerRecord(kept[i].fieldData)]
  IN  SelectSeq(made, LAMBDA m : Truthy(m.lat) /\ Truthy(m.lng))

(***************************************************************************)
(* State                                                                   *)
(***************************************************************************)
\* cmsCache.lastFetch before the first refresh: null, which the staleness
\* test treats like 0.
NoFetch == 0

CACHE_DURATION == 1800000

\* let cmsCache = { hotels: [], regions: [], collections: [], lastFetch: null }
EmptyCache == [hotels |-> <<>>, regions |-> <<>>, lastFetch |-> NoFetch]

\* The locals of a fetchAllCollectionItems call that has not started.
IdleFetch ==
  [pc |-> "idle", id |-> "", items |-> <<>>, offset |-> 0, hasMore |-> TRUE, log |-> <<>>]

\* A refreshCMSCache call that has not started.  f is the fetch the call
\* awaits, hotelsFetch its hotels fetch once that has returned.
IdleCall ==
  [ pc |-> "idle", caller |-> "", outcome |-> "",
    hotelsCollectionId |-> "", regionsCollectionId |-> "",
    f |-> IdleFetch, hotelsFetch |-> IdleFetch,
    before |-> EmptyCache, wrote |-> EmptyCache ]

NoResponse == [route |-> "", status |-> 0, body |-> <<>>]

\* The /api/chat handler between requests.  server is the implementation that
\* handles the request, call the refreshCMSCache call the request started
\* (0: none), upstream the answer of the completion API.
IdleChat ==
  [ pc |-> "idle", server |-> "current", message |-> Undefined, history |-> <<>>, call |-> 0,
    messages |-> <<>>, system |-> [hotelCount |-> 0, hotelContext |-> <<>>],
    upstream |-> [kind |-> "none", status |-> 0, body |-> "", error |-> Undefined,
                  content |-> "", text |-> Undefined] ]

NoRemote == [collections |-> <<>>, items |-> <<>>]

(***************************************************************************)
(* fetchAllCollectionItems                                                 *)
(***************************************************************************)
limit == 100

Min(a, b) == IF a <= b THEN a ELSE b

\* s.substring(0, n)
substring0(s, n) == SubSeq(s, 1, Min(n, Len(s)))

\* The page the CMS serves for ?offset=..&limit=.. of a collection.
Page(coll, offset) == SubSeq(coll, offset + 1, Min(offset + limit, Len(coll)))

\* The call up to its first await: the loop is entered and the first page
\* request is issued.
FetchStart(id) ==
  [pc |-> "fetch", id |-> id, items |-> <<>>, offset |-> 0, hasMore |-> TRUE, log |-> <<>>]

\* FetchResponse with a non-success status thrown like a rejected request.
FetchResponseStatusThrows(f, outcome, coll) ==
  CASE outcome \in {"throw", "notok"} ->
         [f EXCEPT !.pc = "threw", !.log = Append(@, outcome)]
    [] outcome = "noitems" ->
         [f EXCEPT !.pc = "delay", !.hasMore = FALSE, !.offset = @ + limit,
                   !.log = Append(@, outcome)]
    [] OTHER ->
         LET page == Page(coll, f.offset)
         IN  [f EXCEPT !.pc = "delay", !.items = @ \o page,
                       !.hasMore = (Len(page) = limit), !.offset = @ + limit,
                       !.log = Append(@, outcome)]

\* The call from the answer to its page request up to its next await.  The
\* outcomes: "ok" (a page of items), "noitems" (a success whose body carries no
\* items), "notok" (a non-success status) and "throw" (fetch or response.json
\* rejects).  log records the outcome of every request issued.
FetchResponse(f, outcome, coll) ==
  CASE outcome = "throw" ->
         [f EXCEPT !.pc = "threw", !.log = Append(@, outcome)]
    [] outcome = "notok" ->
         [f EXCEPT !.pc = "returned", !.log = Append(@, outcome)]
    [] outcome = "noitems" ->
         [f EXCEPT !.pc = "delay", !.hasMore = FALSE, !.offset = @ + limit,
                   !.log = Append(@, outcome)]
    [] OTHER ->
         LET page == Page(coll, f.offset)
         IN  [f EXCEPT !.pc = "delay", !.items = @ \o page,
                       !.hasMore = (Len(page) = limit), !.offset = @ + limit,
                       !.log = Append(@, outcome)]

\* FetchDelay with the loop left after the first page.
FetchDelayOnePage(f) == [f EXCEPT !.pc = "returned"]

\* The call from the end of the 200 ms delay: the next request, or the return.
FetchDelay(f) ==
  IF f.hasMore THEN [f EXCEPT !.pc = "fetch"] ELSE [f EXCEPT !.pc = "returned"]

Outcomes == {"ok", "noitems", "notok", "throw"}

(***************************************************************************)
(* fetchWebflowCollections and the collection lookup of refreshCMSCache    *)
(***************************************************************************)
Upper == "ABCDEFGHIJKLMNOPQRSTUVWXYZ"

Lower == "abcdefghijklmnopqrstuvwxyz"

\* One character in lower case.
LowerChar(c) ==
  IF \E i \in 1..Len(Upper) : SubSeq(Upper, i, i) = c
  THEN LET i == CHOOSE j \in 1..Len(Upper) : SubSeq(Upper, j, j) = c
       IN  SubSeq(Lower, i, i)
  ELSE c

RECURSIVE toLowerCase(_)
toLowerCase(s) ==
  IF s = "" THEN "" ELSE LowerChar(SubSeq(s, 1, 1)) \o toLowerCase(SubSeq(s, 2, Len(s)))

\* s.includes(sub)
includes(s, sub) ==
  \E i \in 1..(Len(s) - Len(sub) + 1) : SubSeq(s, i, i + Len(sub) - 1) = sub

\* (collection.displayName || collection.slug || '').toLowerCase()
CollectionName(c) == toLowerCase(Or(Or(c.displayName, c.slug), Str("")).v)

RECURSIVE FindCollections(_, _)
\* The loop over the collections: the ids found from found on, the last
\* match of each kind winning.
FindCollections(collections, found) ==
  IF collections = <<>> THEN found
  ELSE LET c == Head(collections)
           name == CollectionName(c)
           next ==
             IF includes(name, "hotel") /\ ~includes(name, "type")
             THEN [found EXCEPT !.hotels = c.id]
             ELSE IF includes(name, "region") \/ includes(name, "location")
                  THEN [found EXCEPT !.regions = c.id]
                  ELSE found
       IN  FindCollections(Tail(collections), next)

\* What fetchWebflowCollections returns: the site's collections, or none when
\* the request fails or throws.
fetchWebflowCollections(outcome) ==
  IF outcome = "ok" THEN remote.collections ELSE <<>>

(***************************************************************************)
(* buildSystemPrompt and the request of /api/chat                          *)
(***************************************************************************)
\* `- ${h.name} | region: ${h.region} | slug: ${h.slug}`
PromptLine(h) ==
  "- " \o JSString(h.name) \o " | region: " \o JSString(h.region)
       \o " | slug: " \o JSString(h.slug)

\* The parts of the prompt that depend on the cache: the number of listed
\* hotels and the lines of the first 100 of them.
buildSystemPrompt(hotels) ==
  LET all == getAllHotels(hotels)
      shown == SubSeq(all, 1, Min(100, Len(all)))
  IN  [hotelCount |-> Len(all), hotelContext |-> [i \in 1..Len(shown) |-> PromptLine(shown[i])]]

\* JSON.stringify of a history content that is not a string.
JSONStringify(x) ==
  CASE x.t = "null" -> Str("null")
    [] x.t = "undefined" -> Undefined
    [] x.t = "object" -> Str("{\"url\":\"" \o x.v \o "\"}")
    [] OTHER -> Str(x.v)

\* history.slice(-10)
LastTurns(history) ==
  SubSeq(history, IF Len(history) > 10 THEN Len(history) - 9 ELSE 1, Len(history))

\* The turns forwarded to the completion API.
Messages(history, message) ==
  LET kept == LastTurns(history)
  IN  [i \in 1..Len(kept) |->
         [role |-> kept[i].role,
          content |-> IF kept[i].content.t = "string" THEN kept[i].content
                      ELSE JSONStringify(kept[i].content)]]
      \o <<[role |-> Str("user"), content |-> message]>>

\* The handler ch from the end of its staleness check up to the await of the
\* completion request.
Prompted(ch, cache) ==
  [ch EXCEPT !.pc = "completion",
             !.messages = Messages(ch.history, ch.message),
             !.system = buildSystemPrompt(cache.hotels)]

\* The line buildHotelContext of the legacy server writes for the fieldData f.
LegacySummary(f) ==
  LET name == Or(Or(f["name"], f["hotel-name"]), Str("Unnamed"))
      region == Or(Or(Or(f["region"], f["location"]), f["region-2"]), Str("Portugal"))
      description ==
        Or(Or(Or(f["short-description"], f["description"]), f["meta-description"]), Str(""))
      rooms == Or(Or(f["number-of-rooms"], f["rooms"]), Str(""))
      slug == Or(f["slug"], Str(""))
  IN  "* " \o JSString(name)
        \o (IF Truthy(region) THEN " (" \o JSString(region) \o ")" ELSE "")
        \o (IF Truthy(rooms) THEN " - " \o JSString(rooms) \o " rooms" ELSE "")
        \o (IF Truthy(description) THEN ": " \o substring0(JSString(description), 150) ELSE "")
        \o (IF Truthy(slug) THEN " [joandso.com/hotels-portugal/" \o JSString(slug) \o "]"
            ELSE "")

\* The parts of the legacy prompt that depend on the cache: the number of
\* cached items and the lines of the first 100 listed ones.
LegacySystemPrompt(hotels) ==
  LET kept == SelectSeq(hotels, Listed)
      shown == SubSeq(kept, 1, Min(100, Len(kept)))
  IN  [hotelCount |-> Len(hotels),
       hotelContext |-> [i \in 1..Len(shown) |-> LegacySummary(shown[i].fieldData)]]

\* The turns the legacy server forwards: history.map(...) of the whole
\* history, then the new user turn.
LegacyMessages(history, message) ==
  [i \in 1..Len(history) |-> [role |-> history[i].role, content |-> history[i].content]]
  \o <<[role |-> Str("user"), content |-> message]>>

\* The legacy handler ch from the end of its staleness check up to the await of
\* the completion request.
LegacyPrompted(ch, cache) ==
  [ch EXCEPT !.pc = "completion",
             !.messages = LegacyMessages(ch.history, ch.message),
             !.system = LegacySystemPrompt(cache.hotels)]

(***************************************************************************)
(* refreshCMSCache                                                         *)
(***************************************************************************)
MaxCalls == 2

Calls == 1..MaxCalls

\* Stale with the cache stale from the thirtieth minute on.
StaleFromTheWindowOn ==
  cmsCache.lastFetch = NoFetch \/ now - cmsCache.lastFetch >= CACHE_DURATION

\* !cmsCache.lastFetch || Date.now() - cmsCache.lastFetch > CACHE_DURATION
Stale == cmsCache.lastFetch = NoFetch \/ now - cmsCache.lastFetch > CACHE_DURATION

\* The handler of POST /api/cms/refresh answers as soon as its call returns.
Answer(caller, cache) ==
  IF caller = "manual"
  THEN [route |-> "POST /api/cms/refresh", status |-> 200,
        body |-> [success |-> TRUE, hotelCount |-> Len(cache.hotels)]]
  ELSE res

\* The call returns (outcome "ok": lastFetch is stamped; "threw": the catch
\* block logged the error; "noop": no token) and its caller goes on: the
\* refresh route answers, the chat handler ch builds its request.
Return(p, c, cache, outcome, ch) ==
  /\ calls' = [calls EXCEPT ![p] = [c EXCEPT !.pc = "done", !.outcome = outcome]]
  /\ cmsCache' = cache
  /\ lastDone' = p
  /\ res' = Answer(c.caller, cache)
  /\ chat' = CASE c.caller = "chat" -> Prompted(ch, cache)
               [] c.caller = "legacy" -> LegacyPrompted(ch, cache)
               [] OTHER -> ch

\* The call is suspended at an await.
Suspend(p, c, cache, ch) ==
  /\ calls' = [calls EXCEPT ![p] = c]
  /\ cmsCache' = cache
  /\ chat' = ch
  /\ UNCHANGED <<lastDone, res>>

\* Stamp with lastFetch left alone by a call that found no collection.
StampWhenGathered(p, c, cache) ==
  IF c.hotelsCollectionId = "" /\ c.regionsCollectionId = ""
  THEN Return(p, c, cache, "ok", chat)
  ELSE Return(p, [c EXCEPT !.wrote.lastFetch = now], [cache EXCEPT !.lastFetch = now],
              "ok", chat)

\* cmsCache.lastFetch = Date.now(), the last statement of the try block.
Stamp(p, c, cache) ==
  Return(p, [c EXCEPT !.wrote.lastFetch = now], [cache EXCEPT !.lastFetch = now], "ok", chat)

\* refreshCMSCache called: with no token it returns at once, otherwise it runs
\* up to the request for the site's collections.
RefreshStart(p, caller, ch) ==
  /\ calls[p].pc = "idle"
  /\ LET c == [calls[p] EXCEPT !.caller = caller, !.before = cmsCache, !.wrote = cmsCache]
     IN  IF ~env.webflow
         THEN Return(p, c, cmsCache, "noop", ch)
         ELSE Suspend(p, [c EXCEPT !.pc = "collections"], cmsCache, ch)

\* app.listen callback: the initial cache load.
Startup(p) ==
  /\ env.webflow
  /\ \A q \in Calls : calls[q].pc = "idle"
  /\ cmsCache = EmptyCache
  /\ res = NoResponse
  /\ chat.pc = "idle"
  /\ RefreshStart(p, "startup", chat)
  /\ UNCHANGED <<env, now, remote, fa>>

\* app.post('/api/cms/refresh')
ManualRefresh(p) ==
  /\ RefreshStart(p, "manual", chat)
  /\ UNCHANGED <<env, now, remote, fa>>

\* The collections request is answered: the ids are looked up and the first
\* fetch is started.
RefreshCollections(p, outcome) ==
  /\ calls[p].pc = "collections"
  /\ LET ids == FindCollections(fetchWebflowCollections(outcome),
                                [hotels |-> "", regions |-> ""])
         c == [calls[p] EXCEPT !.hotelsCollectionId = ids.hotels,
                               !.regionsCollectionId = ids.regions]
     IN  IF ids.hotels # ""
         THEN Suspend(p, [c EXCEPT !.pc = "hotels", !.f = FetchStart(ids.hotels)],
                      cmsCache, chat)
         ELSE IF ids.regions # ""
              THEN Suspend(p, [c EXCEPT !.pc = "regions", !.f = FetchStart(ids.regions)],
                           cmsCache, chat)
              ELSE Stamp(p, c, cmsCache)
  /\ UNCHANGED <<env, now, remote, fa>>

\* fetchAllCollectionItems returned items to the call.
AfterFetch(p, c, items) ==
  IF c.pc = "hotels"
  THEN LET cache == [cmsCache EXCEPT !.hotels = items]
           d == [c EXCEPT !.wrote.hotels = items, !.hotelsFetch = c.f]
       IN  IF c.regionsCollectionId # ""
           THEN Suspend(p, [d EXCEPT !.pc = "regions",
                                     !.f = FetchStart(c.regionsCollectionId)],
                        cache, chat)
           ELSE Stamp(p, d, cache)
  ELSE Stamp(p, [c EXCEPT !.wrote.regions = items], [cmsCache EXCEPT !.regions = items])

\* What the call does with its fetch in the state f.
Continue(p, f) ==
  LET c == [calls[p] EXCEPT !.f = f]
  IN  CASE f.pc = "threw" -> Return(p, c, cmsCache, "threw", chat)
        [] f.pc = "returned" -> AfterFetch(p, c, f.items)
        [] OTHER -> Suspend(p, c, cmsCache, chat)

\* A page request of the call is answered.
RefreshPage(p, outcome) ==
  /\ calls[p].pc \in {"hotels", "regions"}
  /\ calls[p].f.pc = "fetch"
  /\ Continue(p, FetchResponse(calls[p].f, outcome, remote.items[calls[p].f.id]))
  /\ UNCHANGED <<env, now, remote, fa>>

\* The delay after a page of the call ends.
RefreshDelay(p) ==
  /\ calls[p].pc \in {"hotels", "regions"}
  /\ calls[p].f.pc = "delay"
  /\ Continue(p, FetchDelay(calls[p].f))
  /\ UNCHANGED <<env, now, remote, fa>>

(***************************************************************************)
(* /api/chat                                                               *)
(***************************************************************************)
Whitespace == {" ", "\n", "\t", "\r"}

RECURSIVE trimStart(_)
trimStart(s) ==
  IF Len(s) > 0 /\ SubSeq(s, 1, 1) \in Whitespace THEN trimStart(SubSeq(s, 2, Len(s))) ELSE s

RECURSIVE trimEnd(_)
trimEnd(s) ==
  IF Len(s) > 0 /\ SubSeq(s, Len(s), Len(s)) \in Whitespace
  THEN trimEnd(SubSeq(s, 1, Len(s) - 1))
  ELSE s

trim(s) == trimEnd(trimStart(s))

startsWith(s, prefix) == Len(s) >= Len(prefix) /\ SubSeq(s, 1, Len(prefix)) = prefix

endsWith(s, suffix) ==
  Len(s) >= Len(suffix) /\ SubSeq(s, Len(s) - Len(suffix) + 1, Len(s)) = suffix

\* The text handed to JSON.parse: the reply without its markdown fence.
cleanJson(rawResponse) ==
  LET t0 == trim(rawResponse)
      t1 == IF startsWith(t0, "'''json") THEN SubSeq(t0, 8, Len(t0)) ELSE t0
      t2 == IF startsWith(t1, "'''") THEN SubSeq(t1, 4, Len(t1)) ELSE t1
      t3 == IF endsWith(t2, "'''") THEN SubSeq(t2, 1, Len(t2) - 3) ELSE t2
  IN  trim(t3)

Arr(elems) == [t |-> "array", elems |-> elems]

\* A parsed JSON object with the members of a reply.
Reply(message, hotels, mapAction) ==
  [t |-> "object", message |-> message, hotels |-> hotels, mapAction |-> mapAction]

FlyToLisbon == Obj("flyTo 38.7223 -9.1393 12")

\* The JSON documents of the model and the values JSON.parse gives for them.
JsonDocs ==
  ( "{\"message\":\"Great pick!\",\"hotels\":[\"memmo-alfama\",\"nonexistent-slug\"],\"mapAction\":null}"
      :> Reply(Str("Great pick!"), Arr(<<Str("memmo-alfama"), Str("nonexistent-slug")>>), Null) )
  @@ ( "{\"message\":\"Two stays\",\"hotels\":[\"torel-1884\",\"casa-mae\",\"torel-1884\",7],\"mapAction\":{\"type\":\"flyTo\"}}"
      :> Reply(Str("Two stays"),
               Arr(<<Str("torel-1884"), Str("casa-mae"), Str("torel-1884"), Num("7")>>),
               FlyToLisbon) )
  @@ ( "{\"message\":\"Hello!\"}" :> Reply(Str("Hello!"), Undefined, Undefined) )
  @@ ( "{\"message\":\"One\",\"hotels\":\"memmo-alfama\"}"
      :> Reply(Str("One"), Str("memmo-alfama"), Undefined) )
  @@ ( "{\"hotels\":null}" :> Reply(Undefined, Null, Undefined) )
  @@ ( "null" :> Null )
  @@ ( "\"Porto is our hometown\"" :> Str("Porto is our hometown") )
  @@ ( "42" :> Num("42") )

\* JSON.parse: the value of a document, a SyntaxError for any other text.
JSONParse(text) ==
  IF text \in DOMAIN JsonDocs
  THEN [threw |-> FALSE, value |-> JsonDocs[text]]
  ELSE [threw |-> TRUE, value |-> Undefined]

\* The reply the parse block gives for the model's text.
ParseReply(rawResponse) ==
  LET r == JSONParse(cleanJson(rawResponse))
  IN  IF r.threw
      THEN Reply(Or(Str(substring0(rawResponse, 200)),
                    Str("Let me help you find the perfect hotel in Portugal.")),
                 Arr(<<>>), Null)
      ELSE r.value

\* parsed.member of a value that is not null.
Member(parsed, m) ==
  IF parsed.t = "object" THEN parsed[m] ELSE Undefined

\* hotelCards that throws on a slug that resolves to no hotel instead of
\* dropping it.
hotelCardsStrict(parsed, hotels) ==
  IF parsed.t = "null"
  THEN [threw |-> TRUE, cards |-> <<>>]
  ELSE LET list == Or(IF parsed.t = "object" THEN parsed.hotels ELSE Undefined, Arr(<<>>))
           found == [i \in 1..Len(list.elems) |-> getHotelBySlug(hotels, list.elems[i])]
       IN  IF list.t # "array"
           THEN [threw |-> TRUE, cards |-> <<>>]
           ELSE [threw |-> \E i \in 1..Len(found) : found[i] = Null,
                 cards |-> SelectSeq(found, LAMBDA h : h # Null)]

\* (parsed.hotels || []).map(slug => getHotelBySlug(slug)).filter(h => h !== null);
\* reading parsed.hotels of null and calling map on a value that has none
\* throw a TypeError.
hotelCards(parsed, hotels) ==
  IF parsed.t = "null"
  THEN [threw |-> TRUE, cards |-> <<>>]
  ELSE LET list == Or(Member(parsed, "hotels"), Arr(<<>>))
       IN  IF list.t # "array"
           THEN [threw |-> TRUE, cards |-> <<>>]
           ELSE [threw |-> FALSE,
                 cards |-> SelectSeq([i \in 1..Len(list.elems) |->
                                        getHotelBySlug(hotels, list.elems[i])],
                                     LAMBDA h : h # Null)]

ChatRoute == "POST /api/chat"

ChatError(status, message) ==
  [route |-> ChatRoute, status |-> status, body |-> [error |-> Str(message)]]

\* The answer of the completion API.  kind "throw": fetch rejects; "error": a
\* non-success status with a body that is an object (error: its error.message),
\* null or no JSON; "ok": a success whose data holds the text (undefined when
\* content is empty) or, with content "missing", no content array.
Upstream(kind, status, body, error, content, text) ==
  [kind |-> kind, status |-> status, body |-> body, error |-> error,
   content |-> content, text |-> text]

\* UpstreamFailure that answers every failure of the completion API with 500.
UpstreamFailureAs500(up) ==
  [route |-> ChatRoute, status |-> 500, body |-> [error |-> Or(up.error, Str("API error"))]]

\* res.status(response.status).json({ error: errorData.error?.message || 'API error' })
UpstreamFailure(up) ==
  [route |-> ChatRoute, status |-> up.status,
   body |-> [error |-> Or(up.error, Str("API error"))]]

\* The response of the handler to the answer up of the completion API.
ChatResponse(up, hotels) ==
  CASE up.kind = "throw" -> ChatError(500, "Failed to process chat request")
    [] up.kind = "error" ->
         IF up.body = "object"
         THEN UpstreamFailure(up)
         ELSE ChatError(500, "Failed to process chat request")
    [] OTHER ->
         IF up.content = "missing"
         THEN ChatError(500, "Failed to process chat request")
         ELSE LET rawResponse == Or(up.text, Str("")).v
                  parsed == ParseReply(rawResponse)
                  cards == hotelCards(parsed, hotels)
              IN  IF cards.threw
                  THEN ChatError(500, "Failed to process chat request")
                  ELSE [route |-> ChatRoute, status |-> 200,
                        body |-> [message |-> Or(Member(parsed, "message"), Str("")),
                                  hotels |-> cards.cards,
                                  mapAction |-> Or(Member(parsed, "mapAction"), Null),
                                  usage |-> Str("usage")]]

\* MissingMessage that takes only an absent message for missing.
MissingMessageAbsentOnly(body) == body.message = Undefined

\* if (!message)
MissingMessage(body) == ~Truthy(body.message)

\* app.post('/api/chat') up to its first await: the two early returns, the
\* staleness check with the start of a refresh, or the completion request.
ChatRequest(body) ==
  /\ chat.pc = "idle"
  /\ LET ch == [IdleChat EXCEPT !.message = body.message, !.history = body.history]
     IN  IF ~env.anthropic
         THEN /\ res' = ChatError(500, "Anthropic API key not configured")
              /\ chat' = [ch EXCEPT !.pc = "done"]
              /\ UNCHANGED <<cmsCache, calls, lastDone>>
         ELSE IF MissingMessage(body)
         THEN /\ res' = ChatError(400, "Message is required")
              /\ chat' = [ch EXCEPT !.pc = "done"]
              /\ UNCHANGED <<cmsCache, calls, lastDone>>
         ELSE IF Stale
         THEN \E p \in Calls :
                /\ \A q \in 1..(p - 1) : calls[q].pc # "idle"
                /\ RefreshStart(p, "chat", [ch EXCEPT !.pc = "refreshing", !.call = p])
         ELSE /\ chat' = Prompted(ch, cmsCache)
              /\ UNCHANGED <<cmsCache, calls, lastDone, res>>
  /\ UNCHANGED <<env, now, remote, fa>>

\* The completion request is answered and the handler responds.
ChatCompletion(up) ==
  /\ chat.pc = "completion"
  /\ chat.server = "current"
  /\ res' = ChatResponse(up, cmsCache.hotels)
  /\ chat' = [chat EXCEPT !.pc = "done", !.upstream = up]
  /\ UNCHANGED <<cmsCache, env, now, remote, calls, lastDone, fa>>

\* The response of the legacy handler to the answer up of the completion API.
LegacyChatResponse(up) ==
  CASE up.kind = "throw" -> ChatError(500, "Failed to process chat request")
    [] up.kind = "error" ->
         IF up.body = "object"
         THEN UpstreamFailure(up)
         ELSE ChatError(500, "Failed to process chat request")
    [] OTHER ->
         IF up.content = "missing"
         THEN ChatError(500, "Failed to process chat request")
         ELSE [route |-> ChatRoute, status |-> 200,
               body |-> [response |-> Or(up.text, Str("I couldn't generate a response.")),
                         usage |-> Str("usage")]]

\* app.post('/api/chat') of the legacy server up to its first await.  Its
\* refreshCMSCache differs from the current one only in fetching a third
\* collection, one whose name includes "collection", into cmsCache.collections.
LegacyChatRequest(body) ==
  /\ chat.pc = "idle"
  /\ LET ch == [IdleChat EXCEPT !.server = "legacy", !.message = body.message,
                                !.history = body.history]
     IN  IF ~env.anthropic
         THEN /\ res' = ChatError(500, "Anthropic API key not configured")
              /\ chat' = [ch EXCEPT !.pc = "done"]
              /\ UNCHANGED <<cmsCache, calls, lastDone>>
         ELSE IF MissingMessage(body)
         THEN /\ res' = ChatError(400, "Message is required")
              /\ chat' = [ch EXCEPT !.pc = "done"]
              /\ UNCHANGED <<cmsCache, calls, lastDone>>
         ELSE IF Stale
         THEN \E p \in Calls :
                /\ \A q \in 1..(p - 1) : calls[q].pc # "idle"
                /\ RefreshStart(p, "legacy", [ch EXCEPT !.pc = "refreshing", !.call = p])
         ELSE /\ chat' = LegacyPrompted(ch, cmsCache)
              /\ UNCHANGED <<cmsCache, calls, lastDone, res>>
  /\ UNCHANGED <<env, now, remote, fa>>

\* The completion request of the legacy handler is answered and it responds.
LegacyChatCompletion(up) ==
  /\ chat.pc = "completion"
  /\ chat.server = "legacy"
  /\ res' = LegacyChatResponse(up)
  /\ chat' = [chat EXCEPT !.pc = "done", !.upstream = up]
  /\ UNCHANGED <<cmsCache, env, now, remote, calls, lastDone, fa>>

(***************************************************************************)
(* The hotel routes over a cache of any content                            *)
(***************************************************************************)
MaxHotels == 2

SampleItems ==
  { Item([ slug |-> Str("memmo-alfama"), name |-> Str("Memmo Alfama"),
           region |-> Str("Lisbon"), latitude |-> Str("38.71"),
           longitude |-> Str("-9.13"), description |-> Str("Rooftop pool") ]),
    Item([ slug |-> Str("memmo-alfama"), name |-> Str("Memmo Alfama (old)"),
           archived |-> Bool(TRUE), lat |-> Num("38.7"), lng |-> Num("-9.1") ]),
    Item([ slug |-> Str("casa-mae"), location |-> Str("Algarve"),
           lat |-> Num("37.1"), lon |-> Num("-8.67") ]
         @@ ("hotel-name" :> Str("Casa Mae")) @@ ("is-closed" :> Bool(TRUE))),
    Item([ slug |-> Str("the-lumiares"), name |-> Str("The Lumiares"),
           archived |-> Str("false"), latitude |-> Num("38.7"),
           longitude |-> Num("-9.14") ]),
    Item([ slug |-> Str("torel-1884"), name |-> Str("Torel 1884"),
           archived |-> Bool(FALSE) ]
         @@ ("is-closed" :> Bool(FALSE)) @@ ("region-2" :> Str("Porto"))
         @@ ("meta-description" :> Str("Palace"))),
    Item([ slug |-> Str("craveiral"), archived |-> Num("0"),
           latitude |-> Str("37.6"), lng |-> Str("-8.6") ]
         @@ ("is-closed" :> Num("1"))),
    Item([ name |-> Str("Draft"), latitude |-> Str("0"), longitude |-> Str("abc") ]),
    BareItem }

SampleSlugs ==
  { Str("memmo-alfama"), Str("casa-mae"), Str("the-lumiares"), Str("torel-1884"),
    Str("craveiral"), Str("nonexistent-slug") }

\* The sequences over S of length at most n.
SeqsUpTo(S, n) == UNION {[1..k -> S] : k \in 0..n}

InitHotels ==
  /\ cmsCache \in [hotels : SeqsUpTo(SampleItems, MaxHotels), regions : {<<>>}, lastFetch : {1}]
  /\ env = [webflow |-> TRUE, anthropic |-> TRUE]
  /\ now = 1
  /\ remote = NoRemote
  /\ calls = [p \in Calls |-> IdleCall]
  /\ lastDone = 0
  /\ res = NoResponse
  /\ fa = IdleFetch
  /\ chat = IdleChat

\* app.get('/api/hotels')
GetHotels ==
  /\ res' = [route |-> "GET /api/hotels", status |-> 200, body |-> getAllHotels(cmsCache.hotels)]
  /\ UNCHANGED <<cmsCache, env, now, remote, calls, lastDone, fa, chat>>

\* app.get('/api/hotels/markers') of the legacy server
GetMarkers ==
  /\ res' = [route |-> "GET /api/hotels/markers", status |-> 200,
             body |-> Markers(cmsCache.hotels)]
  /\ UNCHANGED <<cmsCache, env, now, remote, calls, lastDone, fa, chat>>

\* app.get('/api/hotels/:slug')
GetHotel(slug) ==
  /\ LET hotel == getHotelBySlug(cmsCache.hotels, slug)
     IN  res' = IF hotel # Null
               THEN [route |-> "GET /api/hotels/:slug", status |-> 200, body |-> hotel]
               ELSE [route |-> "GET /api/hotels/:slug", status |-> 404,
                     body |-> [error |-> Str("Hotel not found")]]
  /\ UNCHANGED <<cmsCache, env, now, remote, calls, lastDone, fa, chat>>

NextHotels ==
  \/ GetHotels
  \/ GetMarkers
  \/ \E slug \in SampleSlugs : GetHotel(slug)

SpecHotels == InitHotels /\ [][NextHotels]_vars

(***************************************************************************)
(* The CMS, the clock and the server as a whole                            *)
(***************************************************************************)
MaxVersion == 2

MaxWindows == 1

\* The site's collections: hotels, hotel types (skipped by the lookup) and
\* regions, the last one named by its slug alone.
Listing ==
  << [id |-> "h1", displayName |-> Str("Hotels"), slug |-> Str("hotels")],
     [id |-> "t1", displayName |-> Str("Hotel Types"), slug |-> Str("types")],
     [id |-> "r1", displayName |-> Undefined, slug |-> Str("Locations")] >>

\* The hotels and the regions the CMS holds in its v-th published version.
HotelsV(v) ==
  [i \in 1..v |-> Item([slug |-> Str("hotel-" \o ToString(v) \o "-" \o ToString(i)),
                        name |-> Str("Hotel " \o ToString(i)),
                        archived |-> Bool(i = 2)])]

RegionsV(v) == <<Item([slug |-> Str("region-" \o ToString(v))])>>

CMS(hotels, regions) ==
  [collections |-> Listing,
   items |-> ("h1" :> hotels) @@ ("t1" :> <<>>) @@ ("r1" :> regions)]

\* The version of the CMS content.
Version == CHOOSE v \in 1..MaxVersion : remote = CMS(HotelsV(v), RegionsV(v))

Init ==
  /\ cmsCache = EmptyCache
  /\ env \in [webflow : BOOLEAN, anthropic : BOOLEAN]
  /\ now = 1
  /\ remote = CMS(HotelsV(1), RegionsV(1))
  /\ calls = [p \in Calls |-> IdleCall]
  /\ lastDone = 0
  /\ res = NoResponse
  /\ fa = IdleFetch
  /\ chat = IdleChat

\* An editor publishes the next version of the content.
CmsEdit ==
  /\ Version < MaxVersion
  /\ remote' = CMS(HotelsV(Version + 1), RegionsV(Version + 1))
  /\ UNCHANGED <<cmsCache, env, now, calls, lastDone, res, fa, chat>>

\* Time passes: d milliseconds.
Tick(d) ==
  /\ now + d <= 1 + MaxWindows * (CACHE_DURATION + 1)
  /\ now' = now + d
  /\ UNCHANGED <<cmsCache, env, remote, calls, lastDone, res, fa, chat>>

\* The lowest call that has not started: the one a caller starts next.
NextCall(p) == calls[p].pc = "idle" /\ \A q \in 1..(p - 1) : calls[q].pc # "idle"

MainBody == [message |-> Str("Hotels in Lisbon?"), history |-> <<>>]

MainUpstream == Upstream("ok", 200, "", Undefined, "text", Str("{\"message\":\"Hello!\"}"))

Next ==
  \/ \E p \in Calls : NextCall(p) /\ Startup(p)
  \/ \E p \in Calls : NextCall(p) /\ ManualRefresh(p)
  \/ \E p \in Calls, outcome \in {"ok", "fail"} : RefreshCollections(p, outcome)
  \/ \E p \in Calls, outcome \in {"ok", "throw"} : RefreshPage(p, outcome)
  \/ \E p \in Calls : RefreshDelay(p)
  \/ ChatRequest(MainBody)
  \/ ChatCompletion(MainUpstream)
  \/ GetHotels
  \/ Tick(CACHE_DURATION + 1)
  \/ CmsEdit

Spec == Init /\ [][Next]_vars

(***************************************************************************)
(* /api/chat over any cache, request and answer of the completion API      *)
(***************************************************************************)
ChatItems ==
  { Item([ slug |-> Str("memmo-alfama"), name |-> Str("Memmo Alfama"),
           region |-> Str("Lisbon") ]),
    Item([ slug |-> Str("memmo-alfama"), name |-> Str("Memmo Alfama (old)"),
           archived |-> Bool(TRUE) ]),
    Item([ slug |-> Str("casa-mae"), name |-> Str("Casa Mae") ]
         @@ ("is-closed" :> Bool(TRUE))),
    Item([ slug |-> Str("torel-1884"), name |-> Str("Torel 1884") ]) }

Marks50 == "!!!!!!!!!!!!!!!!!!!!!!!!!!!!!!!!!!!!!!!!!!!!!!!!!!"

\* A reply in prose of 205 characters.
LongText == "Porto" \o Marks50 \o Marks50 \o Marks50 \o Marks50

RawTexts ==
  DOMAIN JsonDocs
  \cup { "'''json\n{\"message\":\"Great pick!\",\"hotels\":[\"memmo-alfama\",\"nonexistent-slug\"],\"mapAction\":null}\n'''",
         " '''\n{\"message\":\"Hello!\"}\n''' ",
         "'''json\nnull'''",
         "We love Porto, our hometown.",
         "{\"message\":",
         "",
         LongText }

Statuses == {401, 529}

Upstreams ==
  { Upstream("throw", 0, "", Undefined, "", Undefined),
    Upstream("ok", 200, "", Undefined, "missing", Undefined),
    Upstream("ok", 200, "", Undefined, "empty", Undefined) }
  \cup { Upstream("ok", 200, "", Undefined, "text", Str(t)) : t \in RawTexts }
  \cup { Upstream("error", s, "object", e, "", Undefined) :
           s \in Statuses, e \in {Str("Overloaded"), Undefined} }
  \cup { Upstream("error", s, b, Undefined, "", Undefined) :
           s \in Statuses, b \in {"notjson", "null"} }

ChatBodies ==
  { [message |-> Str("Hotels in Lisbon with rooftop?"), history |-> <<>>],
    [message |-> Str("And in Porto?"),
     history |-> << [role |-> Str("user"), content |-> Str("Hi!")],
                    [role |-> Str("assistant"), content |-> Obj("card")] >>],
    [message |-> Undefined, history |-> <<>>],
    [message |-> Str(""), history |-> <<>>] }

InitChat ==
  /\ env \in [webflow : BOOLEAN, anthropic : BOOLEAN]
  /\ \E hotels \in SeqsUpTo(ChatItems, MaxHotels) :
       /\ remote = CMS(hotels, RegionsV(1))
       /\ cmsCache \in {EmptyCache,
                        [hotels |-> hotels, regions |-> RegionsV(1), lastFetch |-> 1]}
  /\ now = 1
  /\ calls = [p \in Calls |-> IdleCall]
  /\ lastDone = 0
  /\ res = NoResponse
  /\ fa = IdleFetch
  /\ chat = IdleChat

NextChat ==
  \/ \E body \in ChatBodies : ChatRequest(body)
  \/ \E up \in Upstreams : ChatCompletion(up)
  \/ \E p \in Calls, outcome \in {"ok", "fail"} : RefreshCollections(p, outcome)
  \/ \E p \in Calls, outcome \in Outcomes : RefreshPage(p, outcome)
  \/ \E p \in Calls : RefreshDelay(p)

SpecChat == InitChat /\ [][NextChat]_vars

(***************************************************************************)
(* /api/chat of both servers over histories of any length                  *)
(***************************************************************************)
MaxTurns == 12

\* A conversation of n turns, the user speaking first.  With cards the
\* assistant's turns carry an object instead of a text.
History(n, cards) ==
  [i \in 1..n |->
     IF i % 2 = 1
     THEN [role |-> Str("user"), content |-> Str("question " \o ToString(i))]
     ELSE [role |-> Str("assistant"),
           content |-> IF cards THEN Obj("card-" \o ToString(i))
                       ELSE Str("answer " \o ToString(i))]]

TurnBodies ==
  { [message |-> Str("And in Porto?"), history |-> History(n, cards)] :
      n \in 0..MaxTurns, cards \in BOOLEAN }
  \cup { [message |-> Undefined, history |-> History(MaxTurns, FALSE)] }

TurnUpstreams ==
  { Upstream("ok", 200, "", Undefined, "text", Str("{\"message\":\"Hello!\"}")),
    Upstream("ok", 200, "", Undefined, "empty", Undefined),
    Upstream("error", 529, "object", Str("Overloaded"), "", Undefined),
    Upstream("throw", 0, "", Undefined, "", Undefined) }

InitTurns ==
  /\ env \in [webflow : BOOLEAN, anthropic : BOOLEAN]
  /\ remote = CMS(HotelsV(2), RegionsV(1))
  /\ cmsCache \in {EmptyCache,
                   [hotels |-> HotelsV(2), regions |-> RegionsV(1), lastFetch |-> 1]}
  /\ now = 1
  /\ calls = [p \in Calls |-> IdleCall]
  /\ lastDone = 0
  /\ res = NoResponse
  /\ fa = IdleFetch
  /\ chat = IdleChat

NextTurns ==
  \/ \E body \in TurnBodies : ChatRequest(body)
  \/ \E body \in TurnBodies : LegacyChatRequest(body)
  \/ \E up \in TurnUpstreams : ChatCompletion(up)
  \/ \E up \in TurnUpstreams : LegacyChatCompletion(up)
  \/ \E p \in Calls, outcome \in {"ok", "fail"} : RefreshCollections(p, outcome)
  \/ \E p \in Calls, outcome \in {"ok", "notok"} : RefreshPage(p, outcome)
  \/ \E p \in Calls : RefreshDelay(p)

SpecTurns == InitTurns /\ [][NextTurns]_vars

(***************************************************************************)
(* /api/chat and the initial cache load under a running clock              *)
(***************************************************************************)
\* A site none of whose collections is named after hotels or regions.
BlogSite ==
  [collections |->
     << [id |-> "t1", displayName |-> Str("Hotel Types"), slug |-> Str("types")],
        [id |-> "b1", displayName |-> Str("Blog Posts"), slug |-> Str("blog")] >>,
   items |-> ("t1" :> <<>>) @@ ("b1" :> <<>>)]

\* The server right after it started listening, or with the cache its initial
\* load filled at time 1.
InitStale ==
  /\ env \in [webflow : BOOLEAN, anthropic : BOOLEAN]
  /\ remote \in {CMS(HotelsV(1), RegionsV(1)), BlogSite}
  /\ cmsCache \in {EmptyCache,
                   [hotels |-> HotelsV(1), regions |-> RegionsV(1), lastFetch |-> 1]}
  /\ now = 1
  /\ calls = [p \in Calls |-> IdleCall]
  /\ lastDone = 0
  /\ res = NoResponse
  /\ fa = IdleFetch
  /\ chat = IdleChat

NextStale ==
  \/ \E p \in Calls : NextCall(p) /\ Startup(p)
  \/ ChatRequest(MainBody)
  \/ ChatCompletion(MainUpstream)
  \/ \E p \in Calls, outcome \in {"ok", "fail"} : RefreshCollections(p, outcome)
  \/ \E p \in Calls, outcome \in {"ok", "notok", "throw"} : RefreshPage(p, outcome)
  \/ \E p \in Calls : RefreshDelay(p)
  \/ \E d \in {CACHE_DURATION, CACHE_DURATION + 1} : Tick(d)

SpecStale == InitStale /\ [][NextStale]_vars

(***************************************************************************)
(* Claims about refreshCMSCache                                            *)
(***************************************************************************)
\* The call p is the only one that has started.
Alone(p) == \A q \in Calls \ {p} : calls[q].pc = "idle"

InFlight(p) == calls[p].pc \in {"collections", "hotels", "regions"}

\* C1: a refreshCMSCache call that throws midway leaves hotels, regions and
\* lastFetch as they were before the call.
C1_ThrowLeavesCacheUnchanged ==
  \A p \in Calls :
    (calls[p].pc = "done" /\ calls[p].outcome = "threw" /\ Alone(p)) =>
      cmsCache = calls[p].before

\* C2: what a handler reads while a refreshCMSCache call is suspended at one
\* of its awaits is the snapshot from before that call: its listed hotels, its
\* regions and its lastFetch.
C2_ReadersSeePreviousSnapshot ==
  \A p \in Calls :
    (InFlight(p) /\ Alone(p)) =>
      /\ getAllHotels(cmsCache.hotels) = getAllHotels(calls[p].before.hotels)
      /\ cmsCache.regions = calls[p].before.regions
      /\ cmsCache.lastFetch = calls[p].before.lastFetch

\* The call fetched both collections and stamped lastFetch.
WroteAll(p) ==
  /\ calls[p].pc = "done"
  /\ calls[p].outcome = "ok"
  /\ calls[p].hotelsCollectionId # ""
  /\ calls[p].regionsCollectionId # ""

\* C3: once all the refreshCMSCache calls have completed, each having fetched
\* both collections, the cache holds the hotels, the regions and the lastFetch
\* written by the call that completed last.
C3_LastCompletionWins ==
  (\A p \in Calls : WroteAll(p)) => cmsCache = calls[lastDone].wrote

(***************************************************************************)
(* Claims about /api/chat                                                  *)
(***************************************************************************)
\* The handler has responded to a request that reached the completion API and
\* got a success carrying a text.
Answered ==
  /\ chat.pc = "done"
  /\ chat.upstream.kind = "ok"
  /\ chat.upstream.content # "missing"

\* The text of the model's reply.
RawText == Or(chat.upstream.text, Str("")).v

\* The value the reply parses to.
ParsedText == JSONParse(cleanJson(RawText))

\* The reply is an envelope: JSON for an object whose hotels is a list.
IsEnvelope ==
  /\ ~ParsedText.threw
  /\ ParsedText.value.t = "object"
  /\ ParsedText.value.hotels.t = "array"

\* Some cached item has the slug s.
Cached(s) == \E i \in 1..Len(cmsCache.hotels) : StrictEq(SlugOf(cmsCache.hotels[i]), s)

\* The first cached item whose slug is s.
FirstCached(s) ==
  cmsCache.hotels[CHOOSE i \in 1..Len(cmsCache.hotels) :
                    /\ StrictEq(SlugOf(cmsCache.hotels[i]), s)
                    /\ \A j \in 1..(i - 1) : ~StrictEq(SlugOf(cmsCache.hotels[j]), s)]

\* C7: when the reply is an envelope the response is a success whose hotels
\* are, in the reply's order, one record for each slug of the reply that is
\* the slug of a cached item, the other slugs being dropped.
C7_CardsForCachedSlugs ==
  (Answered /\ IsEnvelope) =>
    LET matched == SelectSeq(ParsedText.value.hotels.elems, Cached)
    IN  /\ res.route = ChatRoute
        /\ res.status = 200
        /\ Len(res.body.hotels) = Len(matched)
        /\ \A k \in 1..Len(matched) :
             /\ res.body.hotels[k].slug = matched[k]
             /\ res.body.hotels[k] = SlugRecord(FirstCached(matched[k]).fieldData)

\* C7 witness: a reply naming a cached slug and an unknown one was answered
\* with the one record.
C7_Witness ==
  /\ Answered
  /\ IsEnvelope
  /\ Len(ParsedText.value.hotels.elems) = 2
  /\ res.status = 200
  /\ Len(res.body.hotels) = 1

\* The handler has responded to a request without a message.
NoMessageDone == chat.pc = "done" /\ ~Truthy(chat.message)

\* C8 as stated: a request without a message is answered 400 in every
\* configuration.
C8_NoMessageAlways400 == NoMessageDone => res.status = 400

\* C8 amended: a request without a message is answered 400 with a non-empty
\* error when the chat-completion credential is set and 500 with a non-empty
\* error when it is not; either way no refresh is started and the completion
\* API is not called.
C8_NoMessage400Or500 ==
  NoMessageDone =>
    /\ res.route = ChatRoute
    /\ res.status = (IF env.anthropic THEN 400 ELSE 500)
    /\ res.body.error.t = "string" /\ res.body.error.v # ""
    /\ chat.call = 0
    /\ \A p \in Calls : calls[p].pc = "idle"
    /\ chat.upstream.kind = "none"

\* C8 witness: with the credential set, a request with an empty message was
\* answered 400.
C8_Witness ==
  /\ NoMessageDone
  /\ env.anthropic
  /\ chat.message = Str("")
  /\ res.status = 400

\* C9: when the completion API answers with a success carrying a text, the
\* handler never responds with an error, whatever the text is.
C9_MalformedNeverAnError == Answered => res.status = 200

\* The handler threw: the outer catch answers 500.
Threw ==
  \/ chat.upstream.kind = "throw"
  \/ chat.upstream.kind = "error" /\ chat.upstream.body # "object"
  \/ chat.upstream.kind = "ok" /\ chat.upstream.content = "missing"
  \/ /\ Answered
     /\ ~ParsedText.threw
     /\ \/ ParsedText.value.t = "null"
        \/ /\ ParsedText.value.t = "object"
           /\ Truthy(ParsedText.value.hotels)
           /\ ParsedText.value.hotels.t # "array"

Flagged(h) ==
  HasFieldData(h) /\ (Truthy(h.fieldData["archived"]) \/ Truthy(h.fieldData["is-closed"]))

\* The cached items a listing may show: those with fieldData and no flag.
Showable == {i \in 1..Len(cmsCache.hotels) :
               HasFieldData(cmsCache.hotels[i]) /\ ~Flagged(cmsCache.hotels[i])}

\* C4: no item flagged archived or is-closed appears in the output of
\* GET /api/hotels or of GET /api/hotels/markers: every record of the output
\* is built from an unflagged cached item, and the output has no more records
\* than the cache has unflagged items.
C4_FlaggedNeverListed ==
  /\ res.route = "GET /api/hotels" =>
       /\ Len(res.body) = Cardinality(Showable)
       /\ \A k \in 1..Len(res.body) :
            \E i \in Showable : res.body[k] = ListRecord(cmsCache.hotels[i].fieldData)
  /\ res.route = "GET /api/hotels/markers" =>
       /\ Len(res.body) <= Cardinality(Showable)
       /\ \A k \in 1..Len(res.body) :
            \E i \in Showable : res.body[k] = MarkerRecord(cmsCache.hotels[i].fieldData)

\* C4 witness: a listing was served from a cache that holds a flagged item.
C4_Witness ==
  /\ res.route \in {"GET /api/hotels", "GET /api/hotels/markers"}
  /\ \E i \in 1..Len(cmsCache.hotels) : Flagged(cmsCache.hotels[i])
  /\ Len(res.body) > 0

\* C5: GET /api/hotels/:slug never returns the record of an item flagged
\* archived or is-closed.
C5_FlaggedNeverReturnedBySlug ==
  (res.route = "GET /api/hotels/:slug" /\ res.status = 200) =>
    \E i \in Showable : res.body = SlugRecord(cmsCache.hotels[i].fieldData)

(***************************************************************************)
(* One fetchAllCollectionItems call over a collection of any size          *)
(***************************************************************************)
MaxItems == 201

\* The i-th item of a collection.
NthItem(i) == Item([slug |-> Str(ToString(i))])

InitFetch ==
  /\ \E n \in 0..MaxItems :
       remote = [collections |-> <<>>, items |-> [id \in {"h1"} |-> [i \in 1..n |-> NthItem(i)]]]
  /\ fa = FetchStart("h1")
  /\ cmsCache = EmptyCache
  /\ env = [webflow |-> TRUE, anthropic |-> TRUE]
  /\ now = 1
  /\ calls = [p \in Calls |-> IdleCall]
  /\ lastDone = 0
  /\ res = NoResponse
  /\ chat = IdleChat

\* The answer to the page request in flight.
FaResponse(outcome) ==
  /\ fa.pc = "fetch"
  /\ fa' = FetchResponse(fa, outcome, remote.items[fa.id])
  /\ UNCHANGED <<cmsCache, env, now, remote, calls, lastDone, res, chat>>

\* The end of the delay after a page.
FaDelay ==
  /\ fa.pc = "delay"
  /\ fa' = FetchDelay(fa)
  /\ UNCHANGED <<cmsCache, env, now, remote, calls, lastDone, res, chat>>

NextFetch ==
  \/ \E outcome \in Outcomes : FaResponse(outcome)
  \/ FaDelay

SpecFetch == InitFetch /\ [][NextFetch]_vars

(***************************************************************************)
(* Claims about fetchAllCollectionItems                                    *)
(***************************************************************************)
\* The number of page requests issued so far.
Requests(f) == Len(f.log) + (IF f.pc = "fetch" THEN 1 ELSE 0)

AllOk(f) == \A k \in 1..Len(f.log) : f.log[k] = "ok"

RECURSIVE GoodPages(_, _, _)
\* The concatenation, in order, of the pages of the requests from k on that
\* were answered with a page.
GoodPages(log, coll, k) ==
  IF k > Len(log) THEN <<>>
  ELSE (IF log[k] = "ok" THEN Page(coll, (k - 1) * limit) ELSE <<>>)
         \o GoodPages(log, coll, k + 1)

\* C6 as stated: a call in which no request failed has issued exactly
\* ceil(N / limit) page requests when it returns.
C6_CeilRequests ==
  LET n == Len(remote.items[fa.id])
  IN  (fa.pc = "returned" /\ AllOk(fa)) => Requests(fa) = (n + limit - 1) \div limit

\* C6 amended: a call in which every request was answered with a page has
\* issued exactly floor(N / limit) + 1 requests when it returns and returns the
\* whole collection; any call that returns has issued at most that many
\* requests and returns the concatenation, in order, of the pages it was served.
C6_FloorPlusOneRequests ==
  LET coll == remote.items[fa.id]
      n == Len(coll)
  IN  fa.pc = "returned" =>
        /\ Requests(fa) <= n \div limit + 1
        /\ fa.items = GoodPages(fa.log, coll, 1)
        /\ AllOk(fa) => (Requests(fa) = n \div limit + 1 /\ fa.items = coll)

\* C6 witness: a call over a collection of exactly two full pages returned
\* after three requests that were all answered with a page.
C6_Witness ==
  /\ fa.pc = "returned"
  /\ AllOk(fa)
  /\ Len(remote.items[fa.id]) = 2 * limit
  /\ Requests(fa) = 3

(***************************************************************************)
(* Claims about the turns forwarded to the completion API                  *)
(***************************************************************************)
\* The handler has built the turn list of its completion request.
Forwarded == chat.messages # <<>>

\* The forwarded turn m is the history turn t: its role, and its content when
\* that is a text.
SameTurn(m, t) ==
  /\ m.role = t.role
  /\ t.content.t = "string" => m.content = t.content

\* C11: on both servers the turn list forwarded to the completion API is the
\* last min(10, length) turns of the history in their order followed by the
\* new user turn, so it never has more than 11 turns.
C11_LastTenTurnsThenUserTurn ==
  Forwarded =>
    LET n == Min(10, Len(chat.history))
        first == Len(chat.history) - n
    IN  /\ Len(chat.messages) = n + 1
        /\ Len(chat.messages) <= 11
        /\ \A i \in 1..n : SameTurn(chat.messages[i], chat.history[first + i])
        /\ chat.messages[n + 1] = [role |-> Str("user"), content |-> chat.message]

(***************************************************************************)
(* Claims about staleness                                                  *)
(***************************************************************************)
\* Thirty minutes, in milliseconds.
ThirtyMinutes == 30 * 60 * 1000

\* Stale as the claim words it: never fetched, or more than 30 minutes since
\* the last fetch.
StaleAt(cache, t) == cache.lastFetch = NoFetch \/ t - cache.lastFetch > ThirtyMinutes

\* The step in which the /api/chat handler passes its two early returns and
\* makes its staleness check.
ChatChecks == chat.pc = "idle" /\ chat'.pc \in {"refreshing", "completion"}

\* The step in which some refreshCMSCache call completes.
CallCompletes == \E p \in Calls : calls[p].pc # "done" /\ calls'[p].pc = "done"

\* The refreshCMSCache call the handler made has returned.
OwnCallReturned ==
  /\ chat.call \in Calls
  /\ calls[chat.call].caller = "chat"
  /\ calls[chat.call].pc = "done"

\* C12, steps: the handler starts a refresh exactly when the cache is stale at
\* its check, and the cache becomes fresh only in a step in which a
\* refreshCMSCache call completes.
C12_Steps ==
  /\ ChatChecks => ((chat'.call # 0) <=> StaleAt(cmsCache, now))
  /\ ChatChecks => (chat'.pc = "refreshing" => calls'[chat'.call].pc # "done")
  /\ (StaleAt(cmsCache, now) /\ ~StaleAt(cmsCache', now')) => CallCompletes

\* C12, states: while the refresh the handler started is in flight the prompt
\* is not built, and once the prompt is built after a stale check the
\* handler's own call has returned.
C12_States ==
  /\ chat.pc = "refreshing" =>
       /\ ~Forwarded
       /\ chat.call \in Calls
       /\ calls[chat.call].pc \in {"collections", "hotels", "regions"}
  /\ (Forwarded /\ chat.call # 0) => OwnCallReturned

\* C12: the cache is stale exactly when lastFetch is null or more than 30
\* minutes have elapsed since it, and becomes fresh only when a
\* refreshCMSCache call completes; a handler of /api/chat that finds the cache
\* stale builds its prompt only after a refreshCMSCache call it made has
\* returned, and one that finds it fresh starts no refresh.
C12_StaleRefreshedBeforePrompt == [][C12_Steps]_vars /\ []C12_States

\* C12 witness: 30 minutes and a millisecond after the last fetch the handler
\* found the cache stale, its refresh has returned with the cache fresh, and
\* the prompt is built.
C12_Witness ==
  /\ chat.pc = "completion"
  /\ OwnCallReturned
  /\ calls[chat.call].before.lastFetch = 1
  /\ calls[chat.call].outcome = "ok"
  /\ cmsCache.lastFetch = now
  /\ now > 1 + ThirtyMinutes

(***************************************************************************)
(* A refresh over a hotels collection of several pages                     *)
(***************************************************************************)
\* The sizes of the hotels collection: empty, one full page, the largest.
PartialSizes == {0, limit, MaxItems}

\* The first n items of the hotels collection.
FirstItems(n) == [i \in 1..n |-> NthItem(i)]

\* The server with an empty cache, or with the whole content cached at time 1.
InitPartial ==
  /\ env \in [webflow : BOOLEAN, anthropic : BOOLEAN]
  /\ \E n \in PartialSizes :
       /\ remote = CMS(FirstItems(n), RegionsV(1))
       /\ cmsCache \in {EmptyCache,
                        [hotels |-> FirstItems(n), regions |-> RegionsV(1), lastFetch |-> 1]}
  /\ now = 1
  /\ calls = [p \in Calls |-> IdleCall]
  /\ lastDone = 0
  /\ res = NoResponse
  /\ fa = IdleFetch
  /\ chat = IdleChat

NextPartial ==
  \/ ChatRequest(MainBody)
  \/ ChatCompletion(MainUpstream)
  \/ \E p \in Calls, outcome \in {"ok", "fail"} : RefreshCollections(p, outcome)
  \/ \E p \in Calls, outcome \in Outcomes : RefreshPage(p, outcome)
  \/ \E p \in Calls : RefreshDelay(p)
  \/ Tick(CACHE_DURATION + 1)

SpecPartial == InitPartial /\ [][NextPartial]_vars

(***************************************************************************)
(* Claims about a page request that fails during a refresh                 *)
(***************************************************************************)
\* The last request of the fetch f was answered with a non-success status.
StatusFailed(f) == f.log # <<>> /\ f.log[Len(f.log)] = "notok"

\* The pages the fetch f gathered from the collection it read.
Gathered(f) == GoodPages(f.log, remote.items[f.id], 1)

\* The hotels fetch of the call c once its last request is answered.
HotelsFetch(c) == IF c.hotelsFetch.pc = "returned" THEN c.hotelsFetch ELSE c.f

\* Where the call goes on after a fetch that ended: its next request is in
\* flight, or it stamped lastFetch and returned to a caller that goes on.
GoesOn(p) ==
  \/ /\ calls'[p].pc = "regions"
     /\ calls'[p].f.pc = "fetch"
     /\ calls'[p].f.log = <<>>
     /\ cmsCache'.lastFetch = cmsCache.lastFetch
  \/ /\ calls'[p].pc = "done"
     /\ calls'[p].outcome = "ok"
     /\ cmsCache'.lastFetch = now
     /\ calls'[p].caller = "chat" => chat'.pc = "completion"

\* C13, steps: the step in which a page request of a call is answered with a
\* non-success status ends the fetch with no further request, puts the pages
\* gathered so far in place of the cached collection, and the call goes on.
C13_Steps ==
  \A p \in Calls :
    /\ ( /\ calls[p].pc = "hotels"
         /\ calls[p].f.pc = "fetch"
         /\ calls'[p].pc # "hotels" \/ calls'[p].f.pc # "fetch"
         /\ StatusFailed(HotelsFetch(calls'[p])) ) =>
           /\ calls'[p].hotelsFetch.pc = "returned"
           /\ calls'[p].hotelsFetch.log = Append(calls[p].f.log, "notok")
           /\ cmsCache'.hotels = Gathered(calls'[p].hotelsFetch)
           /\ cmsCache'.regions = cmsCache.regions
           /\ GoesOn(p)
    /\ ( /\ calls[p].pc = "regions"
         /\ calls[p].f.pc = "fetch"
         /\ StatusFailed(calls'[p].f) ) =>
           /\ calls'[p].f.pc = "returned"
           /\ calls'[p].f.log = Append(calls[p].f.log, "notok")
           /\ cmsCache'.regions = Gathered(calls'[p].f)
           /\ cmsCache'.hotels = cmsCache.hotels
           /\ GoesOn(p)

\* C13, states: a call that had a fetch ended by a non-success status, and no
\* request rejected, has completed as a success: lastFetch is stamped, the
\* cache holds what the call gathered, whatever it held before.
C13_States ==
  \A p \in Calls :
    ( /\ calls[p].pc = "done"
      /\ StatusFailed(calls[p].hotelsFetch) \/ StatusFailed(calls[p].f)
      /\ calls[p].f.pc # "threw" ) =>
        /\ calls[p].outcome = "ok"
        /\ cmsCache.lastFetch # NoFetch
        /\ cmsCache.lastFetch > calls[p].before.lastFetch
        /\ cmsCache = calls[p].wrote
        /\ calls[p].hotelsFetch.pc = "returned" =>
             cmsCache.hotels = Gathered(calls[p].hotelsFetch)
        /\ calls[p].regionsCollectionId # "" => cmsCache.regions = Gathered(calls[p].f)

PicturedItems ==
  SampleItems
  \cup { Item([ slug |-> Str("memmo-alfama"), name |-> Str("Memmo Alfama"),
                latitude |-> Str("38.71"), longitude |-> Str("-9.13") ]
              @@ ("cover-image" :> Obj("https://cdn.joandso.com/memmo-alfama.jpg"))
              @@ ("booking-url" :> Str("https://book.joandso.com/memmo-alfama"))) }

InitPictured ==
  /\ cmsCache \in [hotels : SeqsUpTo(PicturedItems, MaxHotels), regions : {<<>>},
                   lastFetch : {1}]
  /\ env = [webflow |-> TRUE, anthropic |-> TRUE]
  /\ now = 1
  /\ remote = NoRemote
  /\ calls = [p \in Calls |-> IdleCall]
  /\ lastDone = 0
  /\ res = NoResponse
  /\ fa = IdleFetch
  /\ chat = IdleChat

SpecPictured == InitPictured /\ [][NextHotels]_vars

(***************************************************************************)
(* Claims about the hotel normalisation                                    *)
(***************************************************************************)
Attributes ==
  {"name", "slug", "region", "description", "lat", "lng", "image", "bookingUrl", "url"}

\* The fieldData the normalisation reads when it is handed the record rec:
\* the properties rec has, every other one undefined.
AsFieldData(rec) == [k \in Keys |-> IF k \in DOMAIN rec THEN rec[k] ELSE Undefined]

SameAttributes(a, b) == \A k \in Attributes : a[k] = b[k]

\* C14: the hotel normalisation is idempotent: a record of the listing or of
\* the lookup by slug, normalised again as the fieldData of an item, gives a
\* record with the same name, slug, region, description, lat, lng, image,
\* bookingUrl and url.
C14_NormalisationIdempotent ==
  /\ res.route = "GET /api/hotels" =>
       \A i \in 1..Len(res.body) :
         SameAttributes(ListRecord(AsFieldData(res.body[i])), res.body[i])
  /\ (res.route = "GET /api/hotels/:slug" /\ res.status = 200) =>
       SameAttributes(SlugRecord(AsFieldData(res.body)), res.body)

(***************************************************************************)
(* Claims about a refresh that gathers nothing                             *)
(***************************************************************************)
\* With the CMS credential set, the call c completed without finding a hotels
\* or a regions collection: the listing request failed, or no name matched.
GatheredNothing(c) ==
  /\ env.webflow
  /\ c.pc = "done"
  /\ c.outcome # "threw"
  /\ c.hotelsCollectionId = ""
  /\ c.regionsCollectionId = ""

\* The call that completed last gathered nothing, and at most 30 minutes have
\* passed since it completed.
NothingGatheredLately ==
  /\ lastDone \in Calls
  /\ GatheredNothing(calls[lastDone])
  /\ now - calls[lastDone].wrote.lastFetch <= ThirtyMinutes

\* C15, steps: the step that completes a call that gathered nothing leaves
\* hotels and regions as they are and sets lastFetch to now; a request to
\* /api/chat checked within 30 minutes of it starts no refresh and goes on to
\* build its prompt.
C15_Steps ==
  /\ \A p \in Calls :
       (calls[p].pc = "collections" /\ GatheredNothing(calls'[p])) =>
         /\ cmsCache'.hotels = cmsCache.hotels
         /\ cmsCache'.regions = cmsCache.regions
         /\ cmsCache'.lastFetch = now
         /\ calls'[p].outcome = "ok"
         /\ ~StaleAt(cmsCache', now')
  /\ (ChatChecks /\ NothingGatheredLately) =>
       /\ chat'.call = 0
       /\ chat'.pc = "completion"
       /\ calls' = calls
       /\ cmsCache' = cmsCache

\* C15, states: a call that gathered nothing wrote lastFetch and nothing else,
\* and for 30 minutes after the last such call the cache is fresh.
C15_States ==
  /\ \A p \in Calls :
       GatheredNothing(calls[p]) =>
         /\ calls[p].wrote.hotels = calls[p].before.hotels
         /\ calls[p].wrote.regions = calls[p].before.regions
         /\ calls[p].wrote.lastFetch # NoFetch
  /\ NothingGatheredLately =>
       /\ cmsCache.lastFetch = calls[lastDone].wrote.lastFetch
       /\ ~StaleAt(cmsCache, now)

\* C15: with the CMS credential set, a refresh that gathers nothing (the
\* listing request fails, or no collection name matches) leaves hotels and
\* regions unchanged and sets lastFetch to now, so that the cache is fresh and
\* no /api/chat request starts a refresh for the next 30 minutes, even when
\* the cache is empty.
C15_EmptyRefreshStillStamps == [][C15_Steps]_vars /\ []C15_States

\* C15 witness: the initial load gathered nothing, and a request to /api/chat
\* made exactly 30 minutes later built its prompt over the empty cache
\* without starting a refresh.
C15_Witness ==
  /\ NothingGatheredLately
  /\ now - cmsCache.lastFetch = ThirtyMinutes
  /\ cmsCache.hotels = <<>>
  /\ chat.pc = "completion"
  /\ chat.call = 0
  /\ chat.system.hotelCount = 0

====
